---- MODULE Spec2Model ----
(***************************************************************************)
(* TAP core: the pure reducer (applyEnvelopeToWorld) and the planners of   *)
(* packages/core/src/state/pureReducerAndPlans.ts, driven the way the      *)
(* repository's test drives them: plan an event against the current world, *)
(* wrap it as the next envelope, apply it.                                 *)
(***************************************************************************)
EXTENDS Integers, Sequences, FiniteSets, TLC

VARIABLES world, clock, last, log, orderSlot, placed, envs, callers,
          sweep, engine, stream

vars == <<world, clock, last, log, orderSlot, placed, envs, callers,
          sweep, engine, stream>>

(* ------------------------------ bounds --------------------------------- *)

\* Envelopes committed in one behaviour.
MaxVersion == 6
\* Largest capacity a resource or slot is published with.
MaxCap == 2

ResourceIds == {"r1"}
SlotIds == {"s1"}
HoldIds == {"h1", "h2"}
OrderIds == {"o1", "o2"}
OfferIds == {"f1"}
ActorIds == {"a1", "a2"}
Capacities == 1..MaxCap
\* finalTtlSeconds the callers pass.
Ttls == {1}

(* ------------------------------ instants ------------------------------- *)
(* An IsoInstant is a string "YYYY-MM-DDTHH:MM:SS[.d{1,3}]Z".  The model    *)
(* keeps the fixed-width date-time prefix as a count of seconds (fixed      *)
(* width, zero padded: its string order is its numeric order) and the       *)
(* optional fraction as its sequence of digits; the suffix after the        *)
(* seconds is rebuilt character by character when two instants are          *)
(* compared, as JavaScript compares strings.                                *)

\* The characters after the seconds, as UTF-16 code units.
Suffix(frac) ==
  IF frac = <<>> THEN <<90>>
  ELSE <<46>> \o [i \in 1..Len(frac) |-> 48 + frac[i]] \o <<90>>

\* JavaScript's a < b on two strings given as code-unit sequences.
SeqLess(a, b) ==
  \E i \in 1..(Len(b)) :
     /\ \A j \in 1..(i - 1) : j <= Len(a) /\ a[j] = b[j]
     /\ \/ i > Len(a)
        \/ a[i] < b[i]

StrLess(x, y) ==
  \/ x.sec < y.sec
  \/ x.sec = y.sec /\ SeqLess(Suffix(x.frac), Suffix(y.frac))

StrGreater(x, y) == StrLess(y, x)
StrLeq(x, y) == ~StrLess(y, x)
StrGeq(x, y) == ~StrLess(x, y)

\* Date.getTime(): milliseconds of the instant.
FracMillis(frac) ==
  IF Len(frac) = 0 THEN 0
  ELSE IF Len(frac) = 1 THEN 100 * frac[1]
  ELSE IF Len(frac) = 2 THEN 100 * frac[1] + 10 * frac[2]
  ELSE 100 * frac[1] + 10 * frac[2] + frac[3]

Millis(x) == 1000 * x.sec + FracMillis(x.frac)

\* new Date(getTime() + s*1000).toISOString().replace(/\.\d{3}Z$/, "Z"):
\* toISOString always prints three fraction digits, the replace drops them.
AddSeconds(iso, seconds) ==
  [sec |-> (Millis(iso) + seconds * 1000) \div 1000, frac |-> <<>>]

(* ------------------------------ results -------------------------------- *)

NoEvent == [type |-> "None"]

success(value) == [ok |-> TRUE, code |-> "none", value |-> value]
failure(code) == [ok |-> FALSE, code |-> code, value |-> NoEvent]
\* A thrown exception (ZodError, Error("version-gap")): no Result is returned.
thrown(what) == [ok |-> FALSE, code |-> what, value |-> NoEvent]

(* ------------------------------ world ---------------------------------- *)

Put(f, k, v) == [x \in DOMAIN f \cup {k} |-> IF x = k THEN v ELSE f[x]]
Delete(f, k) == [x \in DOMAIN f \ {k} |-> f[x]]
Empty == [x \in {} |-> NoEvent]

createEmptyWorld ==
  [version |-> 0, resources |-> Empty, slots |-> Empty, holds |-> Empty, orders |-> Empty]

(* ------------------------------ schemas -------------------------------- *)

\* ZLedgerEvent: the per-type shape; ids and instants of the model are always
\* well formed, what can fail is a capacity below 1 and a slot with start >= end.
validEvent(ev) ==
  CASE ev.type = "ResourceCreated" -> ev.capacity >= 1
    [] ev.type = "SlotPublished" -> ev.capacity >= 1 /\ StrLess(ev.start, ev.end)
    [] ev.type = "OfferIssued" -> ev.capacity >= 1 /\ ev.version >= 0
    [] ev.type = "HoldPlaced" -> TRUE
    [] ev.type = "HoldReleased" -> TRUE
    [] ev.type = "OrderConfirmed" -> TRUE
    [] OTHER -> FALSE

\* ZEventEnvelope: a non-negative integer version and a valid event.
validEnvelope(env) == env.version >= 0 /\ validEvent(env.event)

(* ------------------------------ reducer -------------------------------- *)

\* A reducer whose release also drops the orders confirmed from the hold.
applyEventCascading(w, e) ==
  CASE e.type = "ResourceCreated" ->
         [w EXCEPT !.resources = Put(@, e.resourceId,
            [id |-> e.resourceId, timezone |-> e.timezone, capacity |-> e.capacity])]
    [] e.type = "SlotPublished" ->
         [w EXCEPT !.slots = Put(@, e.slotId,
            [id |-> e.slotId, resourceId |-> e.resourceId, start |-> e.start,
             end |-> e.end, capacity |-> e.capacity])]
    [] e.type = "OfferIssued" -> w
    [] e.type = "HoldPlaced" ->
         [w EXCEPT !.holds = Put(@, e.holdId,
            [id |-> e.holdId, slotId |-> e.slotId, actorId |-> e.actorId,
             expiresAt |-> e.expiresAt, issuedAt |-> e.at])]
    [] e.type = "HoldReleased" ->
         [w EXCEPT !.holds = Delete(@, e.holdId),
                   !.orders = [o \in {x \in DOMAIN @ : @[x].holdId # e.holdId} |-> @[o]]]
    [] e.type = "OrderConfirmed" ->
         [w EXCEPT !.orders = Put(@, e.orderId,
            [id |-> e.orderId, holdId |-> e.holdId, actorId |-> e.actorId,
             createdAt |-> e.at]),
                   !.holds = Delete(@, e.holdId)]
    [] OTHER -> w

applyEvent(w, e) ==
  CASE e.type = "ResourceCreated" ->
         [w EXCEPT !.resources = Put(@, e.resourceId,
            [id |-> e.resourceId, timezone |-> e.timezone, capacity |-> e.capacity])]
    [] e.type = "SlotPublished" ->
         [w EXCEPT !.slots = Put(@, e.slotId,
            [id |-> e.slotId, resourceId |-> e.resourceId, start |-> e.start,
             end |-> e.end, capacity |-> e.capacity])]
    [] e.type = "OfferIssued" -> w
    [] e.type = "HoldPlaced" ->
         [w EXCEPT !.holds = Put(@, e.holdId,
            [id |-> e.holdId, slotId |-> e.slotId, actorId |-> e.actorId,
             expiresAt |-> e.expiresAt, issuedAt |-> e.at])]
    [] e.type = "HoldReleased" ->
         [w EXCEPT !.holds = Delete(@, e.holdId)]
    [] e.type = "OrderConfirmed" ->
         [w EXCEPT !.orders = Put(@, e.orderId,
            [id |-> e.orderId, holdId |-> e.holdId, actorId |-> e.actorId,
             createdAt |-> e.at]),
                   !.holds = Delete(@, e.holdId)]
    [] OTHER -> w

\* A reducer that only refuses versions it has already passed.
versionNotBehind(w, version) == w.version + 1 <= version

\* Whether an envelope version continues the world's.
versionContinues(w, version) == w.version + 1 = version

\* A reducer that runs its switch on the world before it checks the version.
applyBeforeVersionCheck(w, env) ==
  IF ~validEnvelope(env) THEN [world |-> w, thrown |-> "ZodError"]
  ELSE IF ~versionContinues(w, env.version)
    THEN [world |-> applyEvent(w, env.event), thrown |-> "version-gap"]
  ELSE [world |-> [applyEvent(w, env.event) EXCEPT !.version = env.version],
        thrown |-> "none"]

\* A reducer that leaves the world's version as it was.
applyKeepingVersion(w, env) ==
  IF ~validEnvelope(env) THEN [world |-> w, thrown |-> "ZodError"]
  ELSE IF ~versionContinues(w, env.version) THEN [world |-> w, thrown |-> "version-gap"]
  ELSE [world |-> applyEvent(w, env.event), thrown |-> "none"]

\* The world after the call and what it threw ("none": it returned).
applyEnvelopeToWorld(w, env) ==
  IF ~validEnvelope(env) THEN [world |-> w, thrown |-> "ZodError"]
  ELSE IF ~versionContinues(w, env.version) THEN [world |-> w, thrown |-> "version-gap"]
  ELSE [world |-> [applyEvent(w, env.event) EXCEPT !.version = env.version],
        thrown |-> "none"]

wrapEventAsNextEnvelope(w, event) == [version |-> w.version + 1, event |-> event]

(* ------------------------------ planners ------------------------------- *)

planPublishSlot(w, ev) ==
  IF ~validEvent(ev) THEN thrown("ZodError")
  ELSE IF ev.resourceId \notin DOMAIN w.resources THEN failure("ResourceNotFound")
  ELSE success(ev)

\* An offer whose window is the slot's start only.
planIssueOfferAtStart(w, nowIso, slotId, offerId, version) ==
  IF slotId \notin DOMAIN w.slots THEN failure("ResourceNotFound")
  ELSE LET slot == w.slots[slotId]
       IN success([type |-> "OfferIssued", at |-> nowIso, offerId |-> offerId,
                   slotId |-> slotId, resourceId |-> slot.resourceId,
                   start |-> slot.start, end |-> slot.start,
                   capacity |-> slot.capacity, version |-> version])

planIssueOffer(w, nowIso, slotId, offerId, version) ==
  IF slotId \notin DOMAIN w.slots THEN failure("ResourceNotFound")
  ELSE LET slot == w.slots[slotId]
       IN success([type |-> "OfferIssued", at |-> nowIso, offerId |-> offerId,
                   slotId |-> slotId, resourceId |-> slot.resourceId,
                   start |-> slot.start, end |-> slot.end,
                   capacity |-> slot.capacity, version |-> version])

\* The holds planPlaceHold counts against the slot's capacity.
activeHolds(w, slot, requestedAt) ==
  {h \in DOMAIN w.holds :
     w.holds[h].slotId = slot.id /\ StrGreater(w.holds[h].expiresAt, requestedAt)}

anyConfirmedOrder(w, slot) ==
  \E o \in DOMAIN w.orders :
     /\ w.orders[o].holdId \in DOMAIN w.holds
     /\ w.holds[w.orders[o].holdId].slotId = slot.id

planPlaceHold(w, req, finalTtlSeconds) ==
  IF req.slotId \notin DOMAIN w.slots THEN failure("ResourceNotFound")
  ELSE LET slot == w.slots[req.slotId] IN
    IF StrGeq(req.requestedAt, slot.end) THEN failure("TemporalInvalidWindow")
    ELSE IF Cardinality(activeHolds(w, slot, req.requestedAt)) >= slot.capacity
      THEN failure("AvailabilityCapacityExceeded")
    ELSE IF anyConfirmedOrder(w, slot) THEN failure("ConflictTimeOverlap")
    ELSE success([type |-> "HoldPlaced", at |-> req.requestedAt, holdId |-> req.id,
                  slotId |-> req.slotId, actorId |-> req.actorId,
                  expiresAt |-> AddSeconds(req.requestedAt, finalTtlSeconds)])

\* A release planned without looking the hold up.
planReleaseHoldUnchecked(w, r) ==
  success([type |-> "HoldReleased", at |-> r.requestedAt, holdId |-> r.holdId])

planReleaseHold(w, r) ==
  IF r.holdId \notin DOMAIN w.holds THEN failure("ResourceNotFound")
  ELSE success([type |-> "HoldReleased", at |-> r.requestedAt, holdId |-> r.holdId])

\* A confirmation that still accepts a hold at the instant it expires.
planConfirmOrderAtExpiry(w, c) ==
  IF c.holdId \notin DOMAIN w.holds THEN failure("ResourceNotFound")
  ELSE LET hold == w.holds[c.holdId] IN
    IF hold.actorId # c.actorId THEN failure("AuthUnauthorized")
    ELSE IF StrLess(hold.expiresAt, c.requestedAt) THEN failure("TemporalPastWindow")
    ELSE success([type |-> "OrderConfirmed", at |-> c.requestedAt, orderId |-> c.id,
                  holdId |-> c.holdId, actorId |-> c.actorId])

\* A confirmation that wants the request to be later than the placement.
planConfirmOrderAfterPlacement(w, c) ==
  IF c.holdId \notin DOMAIN w.holds THEN failure("ResourceNotFound")
  ELSE LET hold == w.holds[c.holdId] IN
    IF hold.actorId # c.actorId THEN failure("AuthUnauthorized")
    ELSE IF StrLeq(hold.expiresAt, c.requestedAt) \/ StrLeq(c.requestedAt, hold.issuedAt)
      THEN failure("TemporalPastWindow")
    ELSE success([type |-> "OrderConfirmed", at |-> c.requestedAt, orderId |-> c.id,
                  holdId |-> c.holdId, actorId |-> c.actorId])

\* A confirmation that looks at the expiry before it looks at the actor.
planConfirmOrderExpiryFirst(w, c) ==
  IF c.holdId \notin DOMAIN w.holds THEN failure("ResourceNotFound")
  ELSE LET hold == w.holds[c.holdId] IN
    IF StrLeq(hold.expiresAt, c.requestedAt) THEN failure("TemporalPastWindow")
    ELSE IF hold.actorId # c.actorId THEN failure("AuthUnauthorized")
    ELSE success([type |-> "OrderConfirmed", at |-> c.requestedAt, orderId |-> c.id,
                  holdId |-> c.holdId, actorId |-> c.actorId])

planConfirmOrder(w, c) ==
  IF c.holdId \notin DOMAIN w.holds THEN failure("ResourceNotFound")
  ELSE LET hold == w.holds[c.holdId] IN
    IF hold.actorId # c.actorId THEN failure("AuthUnauthorized")
    ELSE IF StrLeq(hold.expiresAt, c.requestedAt) THEN failure("TemporalPastWindow")
    ELSE success([type |-> "OrderConfirmed", at |-> c.requestedAt, orderId |-> c.id,
                  holdId |-> c.holdId, actorId |-> c.actorId])

(* ------------------------------ conformance ---------------------------- *)

invariantActiveHoldsWithinCapacity(w) ==
  \A s \in DOMAIN w.slots :
     Cardinality({h \in DOMAIN w.holds :
                    /\ w.holds[h].slotId = w.slots[s].id
                    /\ StrGreater(w.holds[h].expiresAt, w.slots[s].start)})
       <= w.slots[s].capacity

invariantOrdersWithinCapacity(w) ==
  \A s \in DOMAIN w.slots :
     Cardinality({o \in DOMAIN w.orders :
                    /\ w.orders[o].holdId \in DOMAIN w.holds
                    /\ w.holds[w.orders[o].holdId].slotId = w.slots[s].id})
       <= w.slots[s].capacity

invariantReferencedIdsExist(w) ==
  /\ \A o \in DOMAIN w.orders : w.orders[o].holdId \in DOMAIN w.holds
  /\ \A h \in DOMAIN w.holds : w.holds[h].slotId \in DOMAIN w.slots
  /\ \A s \in DOMAIN w.slots : w.slots[s].resourceId \in DOMAIN w.resources

(* ------------------------------ callers -------------------------------- *)
(* The state: the world the caller threads through the calls; the caller's  *)
(* clock (every request and event is stamped with it); the event of the     *)
(* last envelope the reducer accepted; and three histories kept for the     *)
(* properties: the versions of the accepted envelopes, the slot each        *)
(* order's hold was on when it was confirmed, and the first committed       *)
(* placement of each hold id.  A call whose planner fails, or whose         *)
(* envelope the reducer rejects, changes nothing.  Two more variables are    *)
(* for the other ways the code is driven, below: the envelopes of a log      *)
(* handed to the reducer, and the position of each of two callers that       *)
(* share the world.  Here the log is empty and the callers stay idle.        *)
(* The last three variables are the state of the timeline sweep, of the      *)
(* engine with its per-resource logs, and of a stream subscriber.           *)

I(sec, frac) == [sec |-> sec, frac |-> frac]

\* The callers that share one world, and a caller with no command under way.
Callers == {"c1", "c2"}
Idle == [pc |-> "idle", event |-> NoEvent, envelope |-> NoEvent, planned |-> 0, free |-> 0]

\* The value of a variable that belongs to a component the specification at
\* hand does not run (the window sweep, the engine, the stream).
Unused == [pc |-> "unused"]

\* The instants the callers' clock shows, in the order it shows them:
\* "...:00Z", "...:01Z", "...:01.5Z".
ClockInstants == <<I(0, <<>>), I(1, <<>>), I(1, <<5>>)>>

\* Windows the callers publish slots with.  The second is a half second long
\* and the third is the second one reversed.
SlotWindows ==
  { [start |-> I(0, <<>>), end |-> I(3, <<>>)],
    [start |-> I(1, <<>>), end |-> I(1, <<5>>)],
    [start |-> I(1, <<5>>), end |-> I(1, <<>>)] }

Init ==
  /\ world = createEmptyWorld
  /\ clock = 1
  /\ last = NoEvent
  /\ log = <<>>
  /\ orderSlot = Empty
  /\ placed = Empty
  /\ envs = <<>>
  /\ callers = [c \in Callers |-> Idle]
  /\ sweep = Unused
  /\ engine = Unused
  /\ stream = Unused

now == ClockInstants[clock]

\* The clock moves on to its next instant.
Tick ==
  /\ clock < Len(ClockInstants)
  /\ clock' = clock + 1
  /\ UNCHANGED <<world, last, log, orderSlot, placed, envs, callers, sweep, engine, stream>>

\* What a call does with its planner's result: on success it wraps the event
\* as the next envelope and applies it, on failure it does nothing.
Applied(res) ==
  IF res.ok
    THEN applyEnvelopeToWorld(world, wrapEventAsNextEnvelope(world, res.value))
    ELSE [world |-> world, thrown |-> "not-planned"]

Committed(res) == Applied(res).thrown = "none"

Call(res) ==
  /\ world' = Applied(res).world
  /\ last' = IF Committed(res) THEN res.value ELSE last
  /\ log' = IF Committed(res) THEN Append(log, Applied(res).world.version) ELSE log

\* A resource is created by applying its event directly (there is no planner).
CreateResource(r, cap) ==
  LET ev == [type |-> "ResourceCreated", at |-> now, resourceId |-> r,
             timezone |-> "Europe/Berlin", capacity |-> cap]
  IN /\ world.version < MaxVersion
     /\ Call(success(ev))
     /\ UNCHANGED <<clock, orderSlot, placed, envs, callers, sweep, engine, stream>>

SlotPublishedEvent(s, r, win, cap) ==
  [type |-> "SlotPublished", at |-> now, slotId |-> s, resourceId |-> r,
   start |-> win.start, end |-> win.end, capacity |-> cap]

PublishSlot(s, r, win, cap) ==
  /\ world.version < MaxVersion
  /\ Call(planPublishSlot(world, SlotPublishedEvent(s, r, win, cap)))
  /\ UNCHANGED <<clock, orderSlot, placed, envs, callers, sweep, engine, stream>>

HoldRequest(h, s, a) == [id |-> h, slotId |-> s, actorId |-> a, requestedAt |-> now]

PlaceHold(h, s, a, ttl) ==
  LET req == HoldRequest(h, s, a)
      res == planPlaceHold(world, req, ttl)
  IN /\ world.version < MaxVersion
     /\ Call(res)
     /\ placed' = IF Committed(res) /\ h \notin DOMAIN placed
                    THEN Put(placed, h, res.value)
                    ELSE placed
     /\ UNCHANGED <<clock, orderSlot, envs, callers, sweep, engine, stream>>

ReleaseRequest(h) == [holdId |-> h, requestedAt |-> now]

ReleaseHold(h) ==
  /\ world.version < MaxVersion
  /\ Call(planReleaseHold(world, ReleaseRequest(h)))
  /\ UNCHANGED <<clock, orderSlot, placed, envs, callers, sweep, engine, stream>>

OrderCommand(o, h, a) == [id |-> o, holdId |-> h, actorId |-> a, requestedAt |-> now]

ConfirmOrder(o, h, a) ==
  LET res == planConfirmOrder(world, OrderCommand(o, h, a))
  IN /\ world.version < MaxVersion
     /\ Call(res)
     /\ orderSlot' = IF Committed(res) THEN Put(orderSlot, o, world.holds[h].slotId)
                       ELSE orderSlot
     /\ UNCHANGED <<clock, placed, envs, callers, sweep, engine, stream>>

\* An envelope that was not wrapped against the current world reaches the
\* reducer: one wrapped against an older world or delivered twice, one from
\* beyond a gap, or one whose version is not a version at all.
StrayVersions == {-1, 0, world.version, world.version + 2}

StrayEnvelope(v, h) ==
  [version |-> v, event |-> [type |-> "HoldReleased", at |-> now, holdId |-> h]]

ApplyStrayEnvelope(v, h) ==
  LET a == applyEnvelopeToWorld(world, StrayEnvelope(v, h))
  IN /\ world.version < MaxVersion
     /\ v # world.version + 1
     /\ world' = a.world
     /\ last' = IF a.thrown = "none" THEN StrayEnvelope(v, h).event ELSE last
     /\ log' = IF a.thrown = "none" THEN Append(log, v) ELSE log
     /\ UNCHANGED <<clock, orderSlot, placed, envs, callers, sweep, engine, stream>>

Next ==
  \/ Tick
  \/ \E r \in ResourceIds : CreateResource(r, 1)
  \/ \E s \in SlotIds, r \in ResourceIds, win \in SlotWindows, cap \in Capacities :
        PublishSlot(s, r, win, cap)
  \/ \E h \in HoldIds, s \in SlotIds, a \in ActorIds, ttl \in Ttls : PlaceHold(h, s, a, ttl)
  \/ \E h \in HoldIds : ReleaseHold(h)
  \/ \E o \in OrderIds, h \in HoldIds, a \in ActorIds : ConfirmOrder(o, h, a)
  \/ \E v \in StrayVersions, h \in HoldIds : ApplyStrayEnvelope(v, h)

Spec == Init /\ [][Next]_vars

(* ------------------------------ properties ----------------------------- *)

\* The orders confirmed from a hold that was on slot s.
OrdersOn(s) == {o \in DOMAIN orderSlot : orderSlot[o] = s}

\* The holds on slot s that have not expired at instant t, as the planner
\* compares instants.
UnexpiredOn(s, t) ==
  {h \in DOMAIN world.holds :
     world.holds[h].slotId = s /\ StrGreater(world.holds[h].expiresAt, t)}

\* C1: no double-booking: for every slot, the orders confirmed from holds on
\* that slot never outnumber the slot's capacity.
NoDoubleBooking ==
  \A s \in DOMAIN world.slots :
     Cardinality(OrdersOn(s)) <= world.slots[s].capacity

\* C2: zero-sum availability: after every committed command, for every slot,
\* capacity minus (orders on the slot plus holds on the slot that expire after
\* the command's instant) is not negative.
ZeroSumAvailability ==
  log # <<>> =>
    \A s \in DOMAIN world.slots :
       world.slots[s].capacity
         - (Cardinality(OrdersOn(s)) + Cardinality(UnexpiredOn(s, last.at))) >= 0

\* C3: once a hold on a capacity-1 slot has been confirmed into an order, every
\* later placement on that slot, requested before the slot's end, fails with the
\* capacity or the overlap error.
BookedSlotRejectsHolds ==
  \A s \in DOMAIN world.slots :
     (world.slots[s].capacity = 1 /\ OrdersOn(s) # {} /\ StrLess(now, world.slots[s].end))
       => \A h \in HoldIds, a \in ActorIds, ttl \in Ttls :
             planPlaceHold(world, HoldRequest(h, s, a), ttl).code
               \in {"AvailabilityCapacityExceeded", "ConflictTimeOverlap"}

\* C4: the conformance invariant on active holds holds in every world reached
\* by planning and applying: per slot, the holds that expire after the slot's
\* start are at most its capacity.
ActiveHoldsWithinCapacity == invariantActiveHoldsWithinCapacity(world)

\* C5: the conformance invariant on references holds in every world reached by
\* planning and applying: every order's hold, every hold's slot and every
\* slot's resource is in the world.
ReferencedIdsExist == invariantReferencedIdsExist(world)

\* Versions an envelope may arrive with.
RawVersions == (-1)..(MaxVersion + 2)

\* C6: the accepted envelopes carry the versions 1, 2, 3, ... with no gap and no
\* repeat, world.version is the number of envelopes applied, and an envelope
\* whose version is not world.version + 1 is rejected, the world unchanged:
\* with 'version-gap' when the envelope is otherwise valid.
SequenceMonotonic ==
  /\ \A i \in 1..Len(log) : log[i] = i
  /\ world.version = Len(log)
  /\ \A v \in RawVersions, h \in HoldIds :
        v # world.version + 1 =>
          /\ applyEnvelopeToWorld(world, StrayEnvelope(v, h)).world = world
          /\ applyEnvelopeToWorld(world, StrayEnvelope(v, h)).thrown
               = IF v >= 0 THEN "version-gap" ELSE "ZodError"

\* C6 happens: three envelopes are in, and the last one, delivered again, is
\* refused for its version.
SequenceMonotonicWitness ==
  /\ Len(log) >= 3
  /\ applyEnvelopeToWorld(world, [version |-> world.version, event |-> last]).thrown
       = "version-gap"

\* C7: a placement issued again with the id and the body of a committed one
\* commits nothing and returns the original event; issued with the same id and
\* another body it returns the conflict error.
IdempotentReplay ==
  [][\A h \in DOMAIN placed, s \in SlotIds, a \in ActorIds, ttl \in Ttls :
       PlaceHold(h, s, a, ttl) =>
         IF /\ HoldRequest(h, s, a) = [id |-> h, slotId |-> placed[h].slotId,
                                       actorId |-> placed[h].actorId,
                                       requestedAt |-> placed[h].at]
            /\ AddSeconds(now, ttl) = placed[h].expiresAt
           THEN /\ world' = world
                /\ planPlaceHold(world, HoldRequest(h, s, a), ttl) = success(placed[h])
           ELSE planPlaceHold(world, HoldRequest(h, s, a), ttl).code = "ResourceConflict"
    ]_vars

\* C8: expired holds never block admission: for a slot that has not ended, a
\* placement succeeds whenever fewer holds than the capacity are unexpired.
ExpiredHoldsNeverBlock ==
  \A s \in DOMAIN world.slots :
     (StrLess(now, world.slots[s].end)
        /\ Cardinality(UnexpiredOn(s, now)) < world.slots[s].capacity)
       => \A h \in HoldIds, a \in ActorIds, ttl \in Ttls :
             planPlaceHold(world, HoldRequest(h, s, a), ttl).ok

\* C9, as claimed: a confirmation is planned only for a hold that is in the
\* world and expires after the request, and a hold that has expired is refused
\* with the expired-hold error.
ConfirmExpiredIsPastWindow ==
  \A o \in OrderIds, h \in HoldIds, a \in ActorIds :
     LET res == planConfirmOrder(world, OrderCommand(o, h, a)) IN
       /\ res.ok => /\ h \in DOMAIN world.holds
                    /\ StrGreater(world.holds[h].expiresAt, now)
       /\ (h \in DOMAIN world.holds /\ StrLeq(world.holds[h].expiresAt, now))
            => res = failure("TemporalPastWindow")

\* C9, amended: a confirmation is planned only for a hold that is in the world
\* and expires after the request (instants compared as strings), and a hold
\* that has expired is refused with the expired-hold error when the command
\* comes from the actor that placed it.
ConfirmRequiresLiveHold ==
  \A o \in OrderIds, h \in HoldIds, a \in ActorIds :
     LET res == planConfirmOrder(world, OrderCommand(o, h, a)) IN
       /\ res.ok => /\ h \in DOMAIN world.holds
                    /\ StrGreater(world.holds[h].expiresAt, now)
                    /\ res.value.type = "OrderConfirmed"
       /\ (h \in DOMAIN world.holds /\ world.holds[h].actorId = a
             /\ StrLeq(world.holds[h].expiresAt, now))
            => res = failure("TemporalPastWindow")

\* C9 happens: a hold that has expired is in the world and its own actor's
\* confirmation is refused as expired.
ConfirmRequiresLiveHoldWitness ==
  \E h \in DOMAIN world.holds :
     /\ StrLeq(world.holds[h].expiresAt, now)
     /\ planConfirmOrder(world, OrderCommand("o1", h, world.holds[h].actorId)).code
          = "TemporalPastWindow"

\* C10: a release or a confirmation is planned only for a hold that is in the
\* world, its event names that hold, and a release of a hold that is not in the
\* world fails with not-found and yields no event.
ReferentialIntegrityAtCommit ==
  \A h \in HoldIds :
     LET rel == planReleaseHold(world, ReleaseRequest(h)) IN
       /\ rel.ok => h \in DOMAIN world.holds /\ rel.value.holdId = h
       /\ h \notin DOMAIN world.holds => rel = failure("ResourceNotFound")
       /\ \A o \in OrderIds, a \in ActorIds :
             LET con == planConfirmOrder(world, OrderCommand(o, h, a)) IN
               con.ok => h \in DOMAIN world.holds /\ con.value.holdId = h

\* C10 happens: a hold that was placed and then confirmed is gone from the
\* world, and its release is refused as not found.
ReferentialIntegrityWitness ==
  \E h \in DOMAIN placed :
     /\ h \notin DOMAIN world.holds
     /\ \E o \in DOMAIN world.orders : world.orders[o].holdId = h
     /\ planReleaseHold(world, ReleaseRequest(h)).code = "ResourceNotFound"

\* The event types that name a hold.
HoldEventTypes == {"HoldPlaced", "HoldReleased", "OrderConfirmed"}

\* C11: terminal immutability: once a hold that was placed is gone from the
\* world (released or confirmed), no later command for its id is accepted: no
\* envelope that places, releases or confirms that id is committed.
TerminalImmutability ==
  [][\A h \in DOMAIN placed :
       (/\ h \notin DOMAIN world.holds
        /\ world'.version > world.version
        /\ last'.type \in HoldEventTypes)
         => last'.holdId # h
    ]_vars

\* Envelopes with the next version whose event the schema refuses: a resource
\* of capacity 0, and a slot whose start is not before its end.
InvalidEnvelopes ==
  { [version |-> world.version + 1,
     event |-> [type |-> "ResourceCreated", at |-> now, resourceId |-> r,
                timezone |-> "Europe/Berlin", capacity |-> 0]] : r \in ResourceIds }
  \cup
  { [version |-> world.version + 1,
     event |-> SlotPublishedEvent(s, r, [start |-> now, end |-> now], 1)] :
       s \in SlotIds, r \in ResourceIds }

\* What a failed plan leaves behind: it carries no event, and the caller goes
\* on with the world it had.
NothingPlanned(res) == ~res.ok => res.value = NoEvent /\ Applied(res).world = world

\* C12: errors change nothing: a plan that fails yields no event and leaves the
\* world as it was, and an applyEnvelopeToWorld call that throws, for a version
\* gap or for an envelope the schema refuses, leaves the world as it was.
ErrorsChangeNothing ==
  /\ \A s \in SlotIds, r \in ResourceIds, win \in SlotWindows, cap \in Capacities :
        NothingPlanned(planPublishSlot(world, SlotPublishedEvent(s, r, win, cap)))
  /\ \A h \in HoldIds, s \in SlotIds, a \in ActorIds, ttl \in Ttls :
        NothingPlanned(planPlaceHold(world, HoldRequest(h, s, a), ttl))
  /\ \A h \in HoldIds : NothingPlanned(planReleaseHold(world, ReleaseRequest(h)))
  /\ \A o \in OrderIds, h \in HoldIds, a \in ActorIds :
        NothingPlanned(planConfirmOrder(world, OrderCommand(o, h, a)))
  /\ \A v \in RawVersions, h \in HoldIds :
        v # world.version + 1 =>
          /\ applyEnvelopeToWorld(world, StrayEnvelope(v, h)).thrown # "none"
          /\ applyEnvelopeToWorld(world, StrayEnvelope(v, h)).world = world
  /\ \A env \in InvalidEnvelopes :
        /\ applyEnvelopeToWorld(world, env).thrown = "ZodError"
        /\ applyEnvelopeToWorld(world, env).world = world

\* C12 happens: with a live hold filling a slot, a further placement is refused
\* for capacity, and an envelope that would release the hold but carries the
\* version already applied is thrown out.
ErrorsChangeNothingWitness ==
  \E h \in DOMAIN world.holds :
     /\ \E h2 \in HoldIds :
          planPlaceHold(world, HoldRequest(h2, world.holds[h].slotId, "a1"), 1).code
            = "AvailabilityCapacityExceeded"
     /\ applyEnvelopeToWorld(world, StrayEnvelope(world.version, h)).thrown = "version-gap"

RequestInstants == {ClockInstants[i] : i \in 1..Len(ClockInstants)}

\* The world after the event is wrapped as the next envelope and applied.
After(w, event) == applyEnvelopeToWorld(w, wrapEventAsNextEnvelope(w, event)).world

\* C17: the happy path is always enabled: in a world with no holds and no
\* orders, a placement on a published slot requested before the slot's end
\* succeeds; a confirmation by the same actor requested at any instant before
\* the hold's expiresAt, the placement's own instant included, succeeds
\* (instants ordered as the planners order them); and after both events are
\* applied the order is the only order and the hold is gone.
HappyPathEnabled ==
  (world.holds = Empty /\ world.orders = Empty) =>
    \A s \in DOMAIN world.slots, h \in HoldIds, a \in ActorIds, ttl \in Ttls :
       StrLess(now, world.slots[s].end) =>
         LET held == planPlaceHold(world, HoldRequest(h, s, a), ttl) IN
           /\ held.ok
           /\ held.value.type = "HoldPlaced"
           /\ \A t \in RequestInstants, o \in OrderIds :
                 StrLess(t, held.value.expiresAt) =>
                   LET w1 == After(world, held.value)
                       order == planConfirmOrder(w1, [id |-> o, holdId |-> h,
                                                     actorId |-> a, requestedAt |-> t])
                   IN /\ order.ok
                      /\ DOMAIN After(w1, order.value).orders = {o}
                      /\ After(w1, order.value).orders[o].holdId = h
                      /\ h \notin DOMAIN After(w1, order.value).holds
                      /\ After(w1, order.value).version = world.version + 2

\* C17 happens: the log is a resource, a slot, a placement and its confirmation
\* at the placement's instant, and the world holds that one order and no hold.
HappyPathWitness ==
  /\ Len(log) = 4
  /\ last.type = "OrderConfirmed"
  /\ last.holdId \in DOMAIN placed
  /\ placed[last.holdId].at = last.at
  /\ DOMAIN world.orders = {last.orderId}
  /\ world.holds = Empty

\* C18: fresh hold ids: every HoldPlaced event that is committed carries a hold
\* id that no HoldPlaced event committed before it carried.
FreshHoldIds ==
  [][(world'.version > world.version /\ last'.type = "HoldPlaced")
       => last'.holdId \notin DOMAIN placed
    ]_vars

\* C19: expiry arithmetic: the HoldPlaced event planPlaceHold returns expires
\* exactly ttl seconds after requestedAt, whether or not requestedAt has a
\* fraction of a second.
ExpiryArithmetic ==
  \A h \in HoldIds, s \in SlotIds, a \in ActorIds, ttl \in Ttls :
     LET res == planPlaceHold(world, HoldRequest(h, s, a), ttl) IN
       res.ok => Millis(res.value.expiresAt) = Millis(now) + 1000 * ttl

\* Whether the string order of two instants is their order in time.
OrderedAsInTime(x, y) == StrLess(x, y) <=> Millis(x) < Millis(y)

\* C20: instant ordering: on the instants the planners and the slot validator
\* compare (a request's instant with a slot's end, a hold's expiresAt with a
\* request's instant, a slot's start with its end), the string comparison
\* gives what the comparison in time gives.
InstantOrdering ==
  /\ \A s \in DOMAIN world.slots :
        /\ OrderedAsInTime(world.slots[s].start, world.slots[s].end)
        /\ OrderedAsInTime(now, world.slots[s].end)
  /\ \A h \in DOMAIN world.holds :
        OrderedAsInTime(now, world.holds[h].expiresAt)

\* C21: sequence numbers start at 0: the first envelope committed to an empty
\* log carries 0, so the n-th committed envelope carries n - 1.
SequenceStartsAtZero == \A i \in 1..Len(log) : log[i] = i - 1

\* C25: interval well-formedness: every slot of the world starts strictly
\* before it ends, in time.
IntervalWellFormed ==
  \A s \in DOMAIN world.slots : Millis(world.slots[s].start) < Millis(world.slots[s].end)

\* A successful plan commits, and the world it commits to is one version on.
Advances(res) ==
  res.ok => /\ Committed(res)
            /\ Applied(res).world.version = world.version + 1

ConfirmPrecedence ==
  \A o \in OrderIds, h \in HoldIds, a \in ActorIds :
     LET res == planConfirmOrder(world, OrderCommand(o, h, a)) IN
       IF h \notin DOMAIN world.holds THEN res = failure("ResourceNotFound")
       ELSE IF world.holds[h].actorId # a THEN res = failure("AuthUnauthorized")
       ELSE IF StrLeq(world.holds[h].expiresAt, now)
         THEN res = failure("TemporalPastWindow")
       ELSE res.ok /\ res.value.actorId = world.holds[h].actorId

\* C30: confirm is bound to the placing actor, with fixed error precedence: in
\* every world a step leads to, planConfirmOrder fails with not-found for an
\* absent hold, otherwise with unauthorized for another actor's command (also
\* when the hold has expired), otherwise with the expired error; a committed
\* placement stores its request's actor in the hold, no other commit changes a
\* hold's actor, and a committed confirmation carries the actor the hold holds.
ConfirmBoundToPlacer ==
  [][/\ ConfirmPrecedence'
     /\ world'.version > world.version =>
          /\ last'.type = "HoldPlaced" =>
               world'.holds[last'.holdId].actorId = last'.actorId
          /\ last'.type = "OrderConfirmed" =>
               /\ last'.holdId \in DOMAIN world.holds
               /\ world.holds[last'.holdId].actorId = last'.actorId
               /\ world'.orders[last'.orderId].actorId = last'.actorId
          /\ \A h \in DOMAIN world.holds \cap DOMAIN world'.holds :
               (last'.type = "HoldPlaced" /\ last'.holdId = h)
                 \/ world'.holds[h].actorId = world.holds[h].actorId
    ]_vars

\* C30 happens: an order was confirmed by its hold's actor while another
\* actor's hold, already expired, is in the world, so that the confirming
\* actor's command for that hold is refused as unauthorized.
ConfirmBoundToPlacerWitness ==
  /\ last.type = "OrderConfirmed"
  /\ \E h \in DOMAIN world.holds :
        /\ StrLeq(world.holds[h].expiresAt, now)
        /\ world.holds[h].actorId # last.actorId
        /\ planConfirmOrder(world, OrderCommand("o2", h, last.actorId))
             = failure("AuthUnauthorized")

\* C31: hold admission rule and precedence: planPlaceHold fails with not-found
\* for an unknown slot, otherwise with invalid-window when requestedAt >=
\* slot.end, otherwise with capacity-exceeded exactly when the holds on the
\* slot with expiresAt > requestedAt number at least slot.capacity (instants
\* compared as the planner compares them); and a placement is planned only
\* on a slot that has not ended, in time, at the request's instant.
HoldAdmission ==
  \A h \in HoldIds, s \in SlotIds, a \in ActorIds, ttl \in Ttls :
     LET res == planPlaceHold(world, HoldRequest(h, s, a), ttl) IN
       IF s \notin DOMAIN world.slots THEN res = failure("ResourceNotFound")
       ELSE IF StrGeq(now, world.slots[s].end)
         THEN res = failure("TemporalInvalidWindow")
       ELSE /\ res = failure("AvailabilityCapacityExceeded")
                 <=> Cardinality(UnexpiredOn(s, now)) >= world.slots[s].capacity
            /\ res.ok => Millis(now) < Millis(world.slots[s].end)

\* C33: published slots are immutable: a slot that is in world.slots is still
\* there after every step, with the same capacity, start, end and resourceId.
PublishedSlotsImmutable ==
  [][\A s \in DOMAIN world.slots :
       /\ s \in DOMAIN world'.slots
       /\ world'.slots[s] = world.slots[s]
    ]_vars

\* C34: confirmed orders are permanent: an order that is in world.orders is
\* still there after every step with the same holdId and actorId, and the
\* orders grow by one with every committed OrderConfirmed event and with
\* nothing else, so that they number the OrderConfirmed events committed.
OrdersPermanent ==
  [][/\ \A o \in DOMAIN world.orders :
          /\ o \in DOMAIN world'.orders
          /\ world'.orders[o].holdId = world.orders[o].holdId
          /\ world'.orders[o].actorId = world.orders[o].actorId
     /\ Cardinality(DOMAIN world'.orders) =
          Cardinality(DOMAIN world.orders)
            + (IF world'.version > world.version /\ last'.type = "OrderConfirmed"
                 THEN 1 ELSE 0)
    ]_vars

(* ------------------------------ replay --------------------------------- *)
(* The reducer driven by a log: any event the schema accepts is wrapped as  *)
(* the next envelope, applied and kept in envs; the planners are not asked. *)

\* Envelopes in one log.
MaxLog == 3

\* for (const env of envelopes) world = applyEnvelopeToWorld(world, env),
\* stopping at the first envelope that throws.
RECURSIVE applyTail(_, _)
applyTail(w, envelopes) ==
  IF envelopes = <<>> THEN [world |-> w, thrown |-> "none"]
  ELSE LET a == applyEnvelopeToWorld(w, Head(envelopes))
       IN IF a.thrown # "none" THEN a ELSE applyTail(a.world, Tail(envelopes))

\* A loop that stops one envelope short.
reduceAllButLast(envelopes) ==
  LET r == applyTail(createEmptyWorld, SubSeq(envelopes, 1, Len(envelopes) - 1))
  IN IF r.thrown = "none" THEN success(r.world) ELSE failure("Unknown")

reduceEnvelopes(envelopes) ==
  LET r == applyTail(createEmptyWorld, envelopes)
  IN IF r.thrown = "none" THEN success(r.world) ELSE failure("Unknown")

\* The events a log is written from: every type the reducer acts on, over the
\* ids of the model, whether or not the ids they refer to exist.
LogEvents ==
  { [type |-> "ResourceCreated", at |-> I(0, <<>>), resourceId |-> r,
     timezone |-> "Europe/Berlin", capacity |-> 1] : r \in ResourceIds }
  \cup
  { [type |-> "SlotPublished", at |-> I(0, <<>>), slotId |-> s, resourceId |-> r,
     start |-> I(0, <<>>), end |-> I(3, <<>>), capacity |-> cap] :
       s \in SlotIds, r \in ResourceIds, cap \in Capacities }
  \cup
  { [type |-> "HoldPlaced", at |-> I(0, <<>>), holdId |-> h, slotId |-> s,
     actorId |-> "a1", expiresAt |-> I(1, <<>>)] : h \in HoldIds, s \in SlotIds }
  \cup
  { [type |-> "HoldReleased", at |-> I(0, <<>>), holdId |-> h] : h \in HoldIds }
  \cup
  { [type |-> "OrderConfirmed", at |-> I(0, <<>>), orderId |-> o, holdId |-> h,
     actorId |-> "a1"] : o \in OrderIds, h \in HoldIds }

AppendEnvelope(ev) ==
  LET env == wrapEventAsNextEnvelope(world, ev)
      a == applyEnvelopeToWorld(world, env)
  IN /\ Len(envs) < MaxLog
     /\ a.thrown = "none"
     /\ world' = a.world
     /\ envs' = Append(envs, env)
     /\ last' = ev
     /\ log' = Append(log, env.version)
     /\ UNCHANGED <<clock, orderSlot, placed, callers, sweep, engine, stream>>

\* An offer is planned on the world the log has made and committed like any
\* other event.
IssueOffer(s, f) ==
  LET res == planIssueOffer(world, I(0, <<>>), s, f, world.version)
  IN /\ res.ok
     /\ AppendEnvelope(res.value)

NextLog ==
  \/ \E ev \in LogEvents : AppendEnvelope(ev)
  \/ \E s \in SlotIds, f \in OfferIds : IssueOffer(s, f)

SpecLog == Init /\ [][NextLog]_vars

\* C13: snapshot + tail join: for the log applied so far and every cut k of it,
\* reducing the first k envelopes and then applying the rest to that world
\* returns, and gives the world that reducing the whole log gives, which is the
\* world the log was applied to one envelope at a time.
SnapshotTailJoin ==
  \A k \in 0..Len(envs) :
     LET snapshot == reduceEnvelopes(SubSeq(envs, 1, k))
         whole == reduceEnvelopes(envs)
     IN /\ snapshot.ok
        /\ whole.ok
        /\ applyTail(snapshot.value, SubSeq(envs, k + 1, Len(envs)))
             = [world |-> whole.value, thrown |-> "none"]
        /\ whole.value = world

\* C13 happens: a log of at least three envelopes has a cut where a hold is in
\* the snapshot that the tail turns into an order.
SnapshotTailJoinWitness ==
  /\ Len(envs) >= 3
  /\ \E k \in 1..(Len(envs) - 1) :
        /\ reduceEnvelopes(SubSeq(envs, 1, k)).value.holds # Empty
        /\ reduceEnvelopes(SubSeq(envs, 1, k)).value.orders = Empty
  /\ world.orders # Empty
  /\ world.holds = Empty

Released(h) == [type |-> "HoldReleased", at |-> I(0, <<>>), holdId |-> h]

\* C28: release is idempotent on state: applying HoldReleased for a hold id
\* that is not in world.holds changes the version only (by one), and applying
\* the same release twice leaves the resources, slots, holds and orders that
\* applying it once leaves.
ReleaseIdempotentOnState ==
  \A h \in HoldIds :
     LET once == After(world, Released(h))
         twice == After(once, Released(h))
     IN /\ h \notin DOMAIN world.holds => once = [world EXCEPT !.version = @ + 1]
        /\ h \notin DOMAIN once.holds
        /\ twice = [once EXCEPT !.version = @ + 1]

\* C28 happens: the log places a hold, confirms an order from it and then
\* releases it, when it is no longer in world.holds.
ReleaseIdempotentOnStateWitness ==
  /\ Len(envs) = 3
  /\ envs[1].event.type = "HoldPlaced"
  /\ envs[2].event.type = "OrderConfirmed"
  /\ envs[2].event.holdId = envs[1].event.holdId
  /\ envs[3].event = Released(envs[1].event.holdId)
  /\ DOMAIN world.orders = {envs[2].event.orderId}

\* C29: offers do not change state: planIssueOffer succeeds exactly when the
\* slot is in the world, its event carries the slot's resourceId, start, end
\* and capacity, and applying the event changes the world's version only, by
\* one.
OffersChangeNothing ==
  \A s \in SlotIds, f \in OfferIds :
     LET res == planIssueOffer(world, I(0, <<>>), s, f, world.version)
     IN /\ res.ok <=> s \in DOMAIN world.slots
        /\ res.ok =>
             /\ res.value.type = "OfferIssued"
             /\ res.value.resourceId = world.slots[s].resourceId
             /\ res.value.start = world.slots[s].start
             /\ res.value.end = world.slots[s].end
             /\ res.value.capacity = world.slots[s].capacity
             /\ applyEnvelopeToWorld(world, wrapEventAsNextEnvelope(world, res.value))
                  = [world |-> [world EXCEPT !.version = @ + 1], thrown |-> "none"]

\* C29 happens: an offer on a slot of capacity 2 was committed after a hold.
OffersChangeNothingWitness ==
  /\ last.type = "OfferIssued"
  /\ last.capacity = 2
  /\ world.holds # Empty
  /\ world.version = 3

\* C32: the reducer preserves the conformance invariants: the world that
\* reduceEnvelopes returns for a log of valid envelopes with contiguous
\* versions, whatever events it carries, satisfies the three conformance
\* invariants.
ReducerPreservesInvariants ==
  LET r == reduceEnvelopes(envs) IN
    r.ok => /\ invariantActiveHoldsWithinCapacity(r.value)
            /\ invariantOrdersWithinCapacity(r.value)
            /\ invariantReferencedIdsExist(r.value)

(* ------------------------------ concurrency ---------------------------- *)
(* Two callers share the world.  Each issues one command in three steps:    *)
(* it plans the event against the world, wraps the event as the next        *)
(* envelope of the world it then sees, and applies the envelope.  The       *)
(* steps of the two callers interleave freely.  A caller's record keeps its *)
(* position, its event and envelope, and, for the properties, the version   *)
(* of the world it planned against and the units its slot had free then.    *)

\* The worlds the callers start from: a resource and a slot, and on some a
\* hold already placed, each built by planning and reducing.
SetupPublished(cap) ==
  << [type |-> "ResourceCreated", at |-> I(0, <<>>), resourceId |-> "r1",
      timezone |-> "Europe/Berlin", capacity |-> 1],
     [type |-> "SlotPublished", at |-> I(0, <<>>), slotId |-> "s1", resourceId |-> "r1",
      start |-> I(0, <<>>), end |-> I(3, <<>>), capacity |-> cap] >>

Enveloped(events) == [i \in 1..Len(events) |-> [version |-> i, event |-> events[i]]]

SetupHeld(cap) ==
  LET w == reduceEnvelopes(Enveloped(SetupPublished(cap))).value
      req == [id |-> "h1", slotId |-> "s1", actorId |-> "a1", requestedAt |-> I(0, <<>>)]
  IN Append(SetupPublished(cap), planPlaceHold(w, req, 1).value)

SetupLogs ==
  {SetupPublished(cap) : cap \in Capacities} \cup {SetupHeld(cap) : cap \in Capacities}

InitConcurrent ==
  \E events \in SetupLogs :
     /\ world = reduceEnvelopes(Enveloped(events)).value
     /\ clock = 1
     /\ last = events[Len(events)]
     /\ log = [i \in 1..Len(events) |-> i]
     /\ orderSlot = Empty
     /\ placed = IF Len(events) = 3 THEN Put(Empty, "h1", events[3]) ELSE Empty
     /\ envs = Enveloped(events)
     /\ callers = [c \in Callers |-> Idle]
     /\ sweep = Unused
     /\ engine = Unused
     /\ stream = Unused

\* Units of the slot that planPlaceHold finds free.
FreeUnits(w, s, requestedAt) ==
  IF s \in DOMAIN w.slots
    THEN w.slots[s].capacity - Cardinality(activeHolds(w, w.slots[s], requestedAt))
    ELSE 0

\* The caller keeps a successful plan; a failed one leaves it idle.
Plan(c, res, free) ==
  /\ callers[c].pc = "idle"
  /\ res.ok
  /\ callers' = [callers EXCEPT ![c] =
                   [pc |-> "planned", event |-> res.value, envelope |-> NoEvent,
                    planned |-> world.version, free |-> free]]
  /\ UNCHANGED <<world, clock, last, log, orderSlot, placed, envs, sweep, engine, stream>>

PlanPlaceHold(c, h, s, a, ttl) ==
  Plan(c, planPlaceHold(world, HoldRequest(h, s, a), ttl), FreeUnits(world, s, now))

PlanReleaseHold(c, h) == Plan(c, planReleaseHold(world, ReleaseRequest(h)), 0)

PlanConfirmOrder(c, o, h, a) == Plan(c, planConfirmOrder(world, OrderCommand(o, h, a)), 0)

Wrap(c) ==
  /\ callers[c].pc = "planned"
  /\ callers' = [callers EXCEPT ![c].pc = "wrapped",
                                ![c].envelope = wrapEventAsNextEnvelope(world, callers[c].event)]
  /\ UNCHANGED <<world, clock, last, log, orderSlot, placed, envs, sweep, engine, stream>>

ApplyWrapped(c) ==
  LET env == callers[c].envelope
      ev == env.event
      a == applyEnvelopeToWorld(world, env)
      ok == a.thrown = "none"
  IN /\ callers[c].pc = "wrapped"
     /\ world' = a.world
     /\ callers' = [callers EXCEPT ![c].pc = IF ok THEN "committed" ELSE "rejected"]
     /\ last' = IF ok THEN ev ELSE last
     /\ log' = IF ok THEN Append(log, env.version) ELSE log
     /\ envs' = IF ok THEN Append(envs, env) ELSE envs
     /\ placed' = IF ok /\ ev.type = "HoldPlaced" /\ ev.holdId \notin DOMAIN placed
                    THEN Put(placed, ev.holdId, ev) ELSE placed
     /\ orderSlot' = IF ok /\ ev.type = "OrderConfirmed" /\ ev.holdId \in DOMAIN world.holds
                       THEN Put(orderSlot, ev.orderId, world.holds[ev.holdId].slotId)
                       ELSE orderSlot
     /\ UNCHANGED <<clock, sweep, engine, stream>>

NextConcurrent ==
  \E c \in Callers :
     \/ \E h \in HoldIds, s \in SlotIds, a \in ActorIds, ttl \in Ttls :
           PlanPlaceHold(c, h, s, a, ttl)
     \/ \E h \in HoldIds : PlanReleaseHold(c, h)
     \/ \E o \in OrderIds, h \in HoldIds, a \in ActorIds : PlanConfirmOrder(c, o, h, a)
     \/ Wrap(c)
     \/ ApplyWrapped(c)

SpecConcurrent == InitConcurrent /\ [][NextConcurrent]_vars

\* A caller whose command has run to its end.
Finished(c) == callers[c].pc \in {"committed", "rejected"}

reducerVars == <<world, clock, last, log, orderSlot, placed, envs, callers>>

\* The reducer's variables in a specification that does not run the reducer.
ReducerAtRest ==
  /\ world = createEmptyWorld
  /\ clock = 1
  /\ last = NoEvent
  /\ log = <<>>
  /\ orderSlot = Empty
  /\ placed = Empty
  /\ envs = <<>>
  /\ callers = [c \in Callers |-> Idle]

\* Deltas in one timeline.
MaxDeltas == 2
\* Latest instant of a delta or a window.
MaxTime == 3

Times == 0..MaxTime
Baselines == {0, 1}
Deltas == [at : Times, delta : {-1, 1}]
DeltaLists == UNION {[1..n -> Deltas] : n \in 0..MaxDeltas}

Min(a, b) == IF a < b THEN a ELSE b

\* let v = baseline; for (const d of deltas) if (Date.parse(d.at) <= cutoff) v += d.delta
RECURSIVE integrateAt(_, _, _)
integrateAt(baseline, deltas, t) ==
  IF deltas = <<>> THEN baseline
  ELSE integrateAt(IF Head(deltas).at <= t THEN baseline + Head(deltas).delta ELSE baseline,
                   Tail(deltas), t)

\* [...deltas].sort(byAt): a stable sort by instant.
RECURSIVE sortByAt(_)
sortByAt(deltas) ==
  IF deltas = <<>> THEN <<>>
  ELSE LET rest == sortByAt(Tail(deltas))
           k == Cardinality({j \in 1..Len(rest) : rest[j].at < Head(deltas).at})
       IN SubSeq(rest, 1, k) \o <<Head(deltas)>> \o SubSeq(rest, k + 1, Len(rest))

\* integrateRangeMin up to its loop: v, min, t, E, ds and i are its locals (i
\* counts from 1 here).
InitSweep ==
  /\ ReducerAtRest
  /\ engine = Unused
  /\ stream = Unused
  /\ \E baseline \in Baselines, deltas \in DeltaLists, start \in Times, end \in Times :
        /\ start < end
        /\ sweep = [pc |-> "loop", baseline |-> baseline, deltas |-> deltas,
                    start |-> start, E |-> end, ds |-> sortByAt(deltas),
                    v |-> baseline, min |-> baseline, t |-> start, i |-> 1]

\* One pass through "while (t < E) { ... }", or the exit from it.
SweepStep ==
  LET ds == sweep.ds
      i == sweep.i
      next == IF i <= Len(ds) THEN Min(ds[i].at, sweep.E) ELSE sweep.E
      min == Min(sweep.min, sweep.v)
  IN /\ sweep.pc = "loop"
     /\ sweep' = IF ~(sweep.t < sweep.E) THEN [sweep EXCEPT !.pc = "done"]
                 ELSE IF next = sweep.E THEN [sweep EXCEPT !.min = min, !.pc = "done"]
                 ELSE [sweep EXCEPT !.min = min, !.v = @ + ds[i].delta,
                                    !.i = i + 1, !.t = next]
     /\ UNCHANGED <<reducerVars, engine, stream>>

NextSweep == SweepStep

SpecSweep == InitSweep /\ [][NextSweep]_vars

\* The least value the timeline takes at an instant of [start, end).
RECURSIVE LeastFrom(_, _, _, _)
LeastFrom(baseline, deltas, t, end) ==
  IF t + 1 >= end THEN integrateAt(baseline, deltas, t)
  ELSE Min(integrateAt(baseline, deltas, t), LeastFrom(baseline, deltas, t + 1, end))

\* C22: windowed minimum: what integrateRangeMin returns is the minimum of
\* value_at(t) = baseline + the deltas with at <= t, over the instants t of
\* [start, end) and no others; with no deltas it is the baseline.
WindowedMinimum ==
  sweep.pc = "done" =>
    /\ sweep.min = LeastFrom(sweep.baseline, sweep.deltas, sweep.start, sweep.E)
    /\ sweep.deltas = <<>> => sweep.min = sweep.baseline

(* ------------------------------ engine --------------------------------- *)

Urns == {"R1", "R2"}

MaxDemand == 1

MaxSeq == 3

UrnLists == {<<"R1">>, <<"R2">>, <<"R1", "R2">>, <<"R2", "R1">>}

DemandLists == UNION {[1..n -> 0..MaxDemand] : n \in 0..2}

HoldPlaceCommands ==
    [type : {"hold.place"}, resources : UrnLists, demands : DemandLists, ttlSec : {1}]

DemandZ(d) == d > 0

\* z.array(...).nonempty() on resources and on demands, each demand a positive
\* integer, ttlSec positive: the two lengths are not compared.
Cmd_HoldPlaceZ(cmd) ==
    /\ cmd.type = "hold.place"
    /\ Len(cmd.resources) >= 1
    /\ Len(cmd.demands) >= 1
    /\ \A k \in 1..Len(cmd.demands) : DemandZ(cmd.demands[k])
    /\ cmd.ttlSec > 0

Evt_HoldPlacedZ(evt) ==
    /\ evt.type = "hold.placed"
    /\ Len(evt.resources) >= 1
    /\ Len(evt.demands) >= 1
    /\ \A k \in 1..Len(evt.demands) : DemandZ(evt.demands[k])

seqHi(e, r) == Len(e.logs[r]) - 1

appendEvent(e, r, evt) ==
    [e EXCEPT !.logs[r] = Append(@, [evt EXCEPT !.seq = Len(e.logs[r])])]

HoldPlaced(cmd, holdId) ==
    [type |-> "hold.placed", holdId |-> holdId, resources |-> cmd.resources,
     demands |-> cmd.demands, seq |-> 0]

Lacking(e, cmd) ==
    {k \in 1..Len(cmd.resources) : e.free[cmd.resources[k]] < cmd.demands[k]}

RECURSIVE placeOn(_, _, _, _)
placeOn(e, cmd, holdId, ks) ==
    IF ks = {} THEN e
    ELSE LET k == CHOOSE k \in ks : TRUE
             r == cmd.resources[k]
             held == [appendEvent(e, r, HoldPlaced(cmd, holdId))
                        EXCEPT !.free[r] = @ - cmd.demands[k]]
         IN  placeOn(held, cmd, holdId, ks \ {k})

\* places resource by resource and stops at the first one that lacks capacity
holdPlaceOneByOne(e, cmd) ==
    LET lacking == Lacking(e, cmd)
        ks == {k \in 1..Len(cmd.resources) : \A j \in lacking : k < j}
        holdId == e.minted + 1
    IN  [placeOn(e, cmd, holdId, ks) EXCEPT
           !.minted = IF lacking = {} THEN holdId ELSE @,
           !.reply = IF lacking = {} THEN "ok" ELSE "capacity_violation"]

\* 4.5.2: every (resource, demand) pair is checked first; the appends on all
\* the resources commit together or not at all
holdPlace(e, cmd) ==
    LET lacking == Lacking(e, cmd)
        holdId == e.minted + 1
    IN  IF lacking # {} THEN [e EXCEPT !.reply = "capacity_violation"]
        ELSE [placeOn(e, cmd, holdId, 1..Len(cmd.resources)) EXCEPT
                !.minted = holdId, !.reply = "ok"]

Closed == [pc |-> "closed", resource |-> "R1", watermark |-> 0, delivered |-> <<>>]

InitEngine ==
    /\ ReducerAtRest
    /\ sweep = Unused
    /\ engine = [logs |-> [r \in Urns |-> <<>>], free |-> [r \in Urns |-> 0],
                 minted |-> 0, cmd |-> NoEvent, parsed |-> FALSE, reply |-> "none",
                 before |-> [logs |-> [r \in Urns |-> <<>>], free |-> [r \in Urns |-> 0]]]
    /\ stream = Closed

Received(cmd, parsed) ==
    [engine EXCEPT !.cmd = cmd, !.parsed = parsed,
                   !.before = [logs |-> engine.logs, free |-> engine.free]]

\* 4.5.1 supply.delta with delta = +1
SupplyDelta ==
    \E r \in Urns :
        /\ Len(engine.logs[r]) < MaxSeq
        /\ engine.free[r] < MaxCap
        /\ LET cmd == [type |-> "supply.delta", resource |-> r, delta |-> 1]
               evt == [type |-> "supply.delta.applied", resource |-> r, delta |-> 1, seq |-> 0]
           IN  engine' = [appendEvent(Received(cmd, TRUE), r, evt) EXCEPT
                            !.free[r] = @ + 1, !.reply = "ok"]
        /\ UNCHANGED <<reducerVars, sweep, stream>>

HoldPlace ==
    \E cmd \in HoldPlaceCommands :
        /\ \A k \in 1..Len(cmd.resources) : Len(engine.logs[cmd.resources[k]]) < MaxSeq
        /\ engine' =
             IF ~Cmd_HoldPlaceZ(cmd)
               THEN [Received(cmd, FALSE) EXCEPT !.reply = "bad_request"]
             ELSE IF Len(cmd.demands) # Len(cmd.resources)
               THEN [Received(cmd, TRUE) EXCEPT !.reply = "bad_request"]
             ELSE holdPlace(Received(cmd, TRUE), cmd)
        /\ UNCHANGED <<reducerVars, sweep, stream>>

firstSeqAt(watermark) == watermark

\* 4.8: only events with seq > the watermark
firstSeqAfter(watermark) == watermark + 1

\* bootstrap mode: asOfSeq = seqHi
StreamOpen ==
    \E r \in Urns :
        /\ stream.pc = "closed"
        /\ seqHi(engine, r) >= 0
        /\ stream' = [pc |-> "open", resource |-> r, watermark |-> seqHi(engine, r),
                      delivered |-> <<>>]
        /\ UNCHANGED <<reducerVars, sweep, engine>>

\* resume mode: after = [{resource, seqHi}]
StreamResume ==
    \E r \in Urns, after \in 0..(MaxSeq - 1) :
        /\ stream.pc = "closed"
        /\ after <= seqHi(engine, r)
        /\ stream' = [pc |-> "open", resource |-> r, watermark |-> after,
                      delivered |-> <<>>]
        /\ UNCHANGED <<reducerVars, sweep, engine>>

Deliver ==
    /\ stream.pc = "open"
    /\ LET next == firstSeqAfter(stream.watermark) + Len(stream.delivered)
           lg == engine.logs[stream.resource]
       IN  /\ next <= seqHi(engine, stream.resource)
           /\ stream' = [stream EXCEPT !.delivered = Append(@, lg[next + 1].seq)]
    /\ UNCHANGED <<reducerVars, sweep, engine>>

StreamClose ==
    /\ stream.pc = "open"
    /\ stream' = Closed
    /\ UNCHANGED <<reducerVars, sweep, engine>>

NextEngine ==
    \/ SupplyDelta
    \/ HoldPlace
    \/ StreamOpen
    \/ StreamResume
    \/ Deliver
    \/ StreamClose

SpecEngine == InitEngine /\ [][NextEngine]_vars

IsHoldPlace == engine.cmd # NoEvent /\ engine.cmd.type = "hold.place"

PlacedOnEvery ==
    \A r \in Urns :
        LET was == engine.before.logs[r]
            is == engine.logs[r]
        IN  IF \E k \in 1..Len(engine.cmd.resources) : engine.cmd.resources[k] = r
              THEN /\ Len(is) = Len(was) + 1
                   /\ SubSeq(is, 1, Len(was)) = was
                   /\ is[Len(is)].type = "hold.placed"
                   /\ is[Len(is)].holdId = engine.minted
              ELSE is = was

PlacedOnNone == engine.logs = engine.before.logs /\ engine.free = engine.before.free

LacksCapacity ==
    \E k \in 1..Len(engine.cmd.resources) :
        engine.before.free[engine.cmd.resources[k]] < engine.cmd.demands[k]

\* C23: multi-resource atomicity: a hold placement commits hold.placed with one
\* holdId on every listed resource or changes no resource's log or free units;
\* when a listed resource lacks capacity the reply is capacity_violation and
\* nothing changes.
MultiResourceAtomicity ==
    IsHoldPlace =>
        /\ IF engine.reply = "ok" THEN PlacedOnEvery ELSE PlacedOnNone
        /\ (engine.parsed /\ Len(engine.cmd.demands) = Len(engine.cmd.resources)
              /\ LacksCapacity) => engine.reply = "capacity_violation"

\* a placement on two resources where the first has the units and the second lacks them
MultiResourceAtomicityWitness ==
    /\ IsHoldPlace
    /\ engine.reply = "capacity_violation"
    /\ Len(engine.cmd.resources) = 2
    /\ engine.before.free[engine.cmd.resources[1]] >= engine.cmd.demands[1]
    /\ engine.before.free[engine.cmd.resources[2]] < engine.cmd.demands[2]

DemandResourcePairing ==
    IsHoldPlace =>
        /\ engine.parsed => Len(engine.cmd.demands) = Len(engine.cmd.resources)
        /\ Evt_HoldPlacedZ(HoldPlaced(engine.cmd, engine.minted)) =>
              Len(engine.cmd.demands) = Len(engine.cmd.resources)

====
